---- MODULE Spec2Model ----
(***************************************************************************)
(* The timesheet extension: the closed-period check (recordUtils.js), the  *)
(* available-date computation (dateUtils.js) and the EditableCell state    *)
(* machine (components/EditableCell.js).                                   *)
(*                                                                         *)
(* Time is counted in hours since 2024-01-01T00:00Z.  A JavaScript Date is *)
(* an instant; its local calendar components depend on the time-zone       *)
(* offset tz (hours east of UTC, fixed during a behaviour).  An optional   *)
(* value (null / undefined / '') is the empty sequence <<>>, a present     *)
(* value v is <<v>>.                                                       *)
(***************************************************************************)
EXTENDS Integers, Sequences, FiniteSets, TLC

VARIABLES
    tz,                  \* local time-zone offset of the browser, in hours
    monthRecords,        \* prop: <<>> (missing) or <<list of Month records>>
    monthStatusField,    \* prop: TRUE when the Month status field is configured
    monthStartDateField, \* prop: TRUE when the Month start-date field is configured
    monthEndDateField,   \* prop: TRUE when the Month end-date field is configured
    record,              \* prop: the Timesheet record (its Date and whether the table has a Date field)
    isClosed,            \* render value: isRecordClosed(...)
    availableDates,      \* render value: getAvailableDates(...)
    field,               \* prop: the field of the cell, [name, type]
    cellValue,           \* the host's current value of the field, as the cell reads it
    canEdit,             \* hasPermissionToUpdateRecords for this record and field
    isEditing,           \* useState
    showCalendar,        \* useState
    editValue,           \* useState: the edit buffer (a string)
    isSaving,            \* useState
    linkedRecords,       \* useState: ids of the fetched candidates
    searchTerm,          \* useState
    showLinkedRecordDropdown, \* useState
    savedSelectedIds,    \* useState: locally selected linked-record ids
    selectedMultipleSelectIds, \* useState: locally selected option ids
    justSavedTaskId,     \* useState: <<>> or <<id>>, the just-saved guard
    lastProcessedCellValueRef, \* useRef: <<>> or <<cellValue last processed>>
    effectDeps,          \* dependency values the synchronising effect last ran with
    pending,             \* updateRecordAsync calls in flight, in order of issue
    timers,              \* setTimeout callbacks not yet run
    fetches,             \* search terms of the fetchForeignRecordsAsync calls awaiting a response
    unhandledRejection,  \* TRUE when the last event was a promise rejecting with no handler attached
    alert,               \* the alert() the cell raised while handling the last event, "none" if none
    fieldResolves,       \* how the cell's field prop resolves in the table now: "id", "name" or "none"
    currentMonth,        \* CalendarPicker useState: <<>> (not mounted) or <<[year, month]>>
    pickerEvent,         \* the last user event on the CalendarPicker
    pickerCalls,         \* the props the CalendarPicker called while handling that event
    \* TimesheetApp
    records,             \* useRecords(timesheetTable): the ids of the rows, in order
    selectedRecords,     \* the set of checked record ids
    showDeleteModal,
    deleteField,         \* "none", "noYesDelete" (no such choice) or "ok"
    canUpdateRecords,
    runs,                \* the invocations of handleDeleteConfirm that reached the loop
    appAlert,            \* the alert TimesheetApp raised in the last event, or "none"
    updateTrigger,       \* the refresh counter of the app
    \* CreateRecordModal
    taskRecords,         \* TRUE when the parent passed pre-fetched Task records
    modalSearchTerm,     \* searchTerms.projectFromTask
    modalLinkedRecords,  \* linkedRecords: the field keys that have candidates loaded
    isFetchingTaskRecords,
    lookups,             \* the invocations of the modal's handleLinkedRecordSearch that went past its guards
    showCreateModal,     \* the parent's flag, the modal's isOpen
    timesheetTable,      \* TRUE when the Timesheet table is configured
    formValues,          \* formValues of the modal, one text field
    creations,           \* the createRecordAsync calls in flight: their fieldsToSet
    created,             \* number of records the host created
    createAlert,         \* the alert shown by handleCreate
    \* a call of formatDisplayValue
    formatCall,          \* its arguments
    formatted            \* <<>> before it returns, <<result>> after

monthVars == <<monthRecords, monthStatusField, monthStartDateField, monthEndDateField>>
hostVars == <<tz, monthVars, record, field, cellValue, canEdit>>
renderVars == <<isClosed, availableDates>>
cellVars == <<isEditing, showCalendar, editValue, isSaving, linkedRecords, searchTerm,
              showLinkedRecordDropdown, savedSelectedIds, selectedMultipleSelectIds,
              justSavedTaskId, lastProcessedCellValueRef, effectDeps, pending, timers, fetches,
              alert, unhandledRejection>>
pickerVars == <<currentMonth, pickerEvent, pickerCalls>>
appVars == <<records, selectedRecords, showDeleteModal, deleteField, canUpdateRecords,
             runs, appAlert, updateTrigger>>
createVars == <<showCreateModal, timesheetTable, formValues, creations, created, createAlert>>
modalVars == <<taskRecords, modalSearchTerm, modalLinkedRecords, isFetchingTaskRecords, lookups,
               createVars>>
formatVars == <<formatCall, formatted>>
otherVars == <<fieldResolves, pickerVars, appVars, modalVars, formatVars>>
vars == <<hostVars, renderVars, cellVars, otherVars>>

----------------------------------------------------------------------------
(* Bounds *)

MaxPeriods == 2

TzOffsets == {0 - 5, 2}

\* 2024-01-31T00:00Z and 2024-02-02T00:00Z: date-only host values are UTC midnights
DateA == 30 * 24
DateB == 32 * 24

\* Date values a Month record can hold in its start / end field
PeriodDates == {<<>>, <<DateA>>, <<DateB>>}

\* Date values of the record: day before A, 23:00Z of that day, B, 22:00Z of B
RecordDates == {<<>>, <<29 * 24>>, <<29 * 24 + 23>>, <<DateB>>, <<DateB + 22>>}

\* A status cell value: nothing, a plain string, or a choice object {name}
Statuses ==
    {[kind |-> "none", name |-> ""]}
    \cup [kind : {"string", "choice"}, name : {"Open", "Closed"}]
    \cup {[kind |-> "string", name |-> "Draft"]}

\* the Month records of the model: every status, with a range of three days, a
\* start after the end, and a missing start or end
Periods ==
    { [status |-> st, startDate |-> r[1], endDate |-> r[2]] :
        st \in Statuses,
        r \in { <<<<DateA>>, <<DateB>>>>, <<<<DateB>>, <<DateA>>>>,
                <<<<>>, <<DateB>>>>, <<<<DateA>>, <<>>>> } }

----------------------------------------------------------------------------
(* JavaScript Date: local calendar components of an instant *)

IsLeap(y) == (y % 4 = 0 /\ y % 100 # 0) \/ y % 400 = 0

DaysInMonth(y, m) ==
    IF m = 2 THEN (IF IsLeap(y) THEN 29 ELSE 28)
    ELSE IF m \in {4, 6, 9, 11} THEN 30 ELSE 31

\* the local calendar day an instant falls on, counted from 2024-01-01
LocalDay(t) == (t + tz) \div 24

RECURSIVE CivilFrom(_, _, _)
CivilFrom(y, m, n) ==
    IF n < DaysInMonth(y, m)
    THEN [year |-> y, month |-> m, day |-> n + 1]
    ELSE IF m = 12 THEN CivilFrom(y + 1, 1, n - DaysInMonth(y, m))
    ELSE CivilFrom(y, m + 1, n - DaysInMonth(y, m))

\* getFullYear(), getMonth() + 1, getDate()
Civil(t) == CivilFrom(2024, 1, LocalDay(t))

RECURSIVE DaysBefore(_, _)
DaysBefore(y, m) ==
    IF y = 2024 /\ m = 1 THEN 0
    ELSE IF m = 1 THEN DaysBefore(y - 1, 12) + DaysInMonth(y - 1, 12)
    ELSE DaysBefore(y, m - 1) + DaysInMonth(y, m - 1)

\* new Date(year, monthIndex, day): local midnight of that calendar day
NewDate(y, m, d) == (DaysBefore(y, m) + d - 1) * 24 - tz

\* new Date(d.getFullYear(), d.getMonth(), d.getDate())
ToLocalDate(t) == NewDate(Civil(t).year, Civil(t).month, Civil(t).day)

\* d.setDate(d.getDate() + 1): the day of month overflows into the next month
SetNextDate(t) ==
    LET c == Civil(t)
        rest == t - ToLocalDate(t)
    IN  IF c.day + 1 <= DaysInMonth(c.year, c.month)
        THEN NewDate(c.year, c.month, c.day + 1) + rest
        ELSE IF c.month = 12 THEN NewDate(c.year + 1, 1, 1) + rest
        ELSE NewDate(c.year, c.month + 1, 1) + rest

\* String(n).padStart(2, '0')
PadStart2(n) == IF n < 10 THEN "0" \o ToString(n) ELSE ToString(n)

\* `${year}-${month}-${day}` of the local components
formatDateToString(t) ==
    ToString(Civil(t).year) \o "-" \o PadStart2(Civil(t).month) \o "-" \o PadStart2(Civil(t).day)

----------------------------------------------------------------------------
(* recordUtils.js and dateUtils.js *)

\* status && (status.name === n || status === n)
\* a status read as a plain string only
StatusIsString(status, n) ==
    status.kind = "string" /\ status.name = n

StatusIs(status, n) ==
    /\ status.kind # "none"
    /\ \/ status.kind = "choice" /\ status.name = n
       \/ status.kind = "string" /\ status.name = n

\* a configuration check that looks at the Month records only
MissingRecordsOnly(mRecords, statusField, startField, endField) ==
    mRecords = <<>>

MissingConfig(mRecords, statusField, startField, endField) ==
    mRecords = <<>> \/ ~statusField \/ ~startField \/ ~endField

\* the for loop of isRecordClosed over monthRecords, from index i
RECURSIVE ClosedFrom(_, _, _)
ClosedFrom(recs, i, recordDateLocal) ==
    IF i > Len(recs) THEN FALSE
    ELSE LET m == recs[i] IN
         IF /\ StatusIs(m.status, "Closed")
            /\ m.startDate # <<>> /\ m.endDate # <<>>
            /\ recordDateLocal >= ToLocalDate(m.startDate[1])
            /\ recordDateLocal <= ToLocalDate(m.endDate[1])
         THEN TRUE
         ELSE ClosedFrom(recs, i + 1, recordDateLocal)

isRecordClosed(rec, mRecords, statusField, startField, endField) ==
    IF MissingConfig(mRecords, statusField, startField, endField) THEN FALSE
    ELSE IF ~rec.hasDateField THEN FALSE
    ELSE IF rec.Date = <<>> THEN FALSE
    ELSE ClosedFrom(mRecords[1], 1, ToLocalDate(rec.Date[1]))

\* a loop that stops before the last day
RECURSIVE WalkDatesBeforeEnd(_, _, _)
WalkDatesBeforeEnd(currentDate, endLocal, acc) ==
    IF currentDate < endLocal
    THEN WalkDatesBeforeEnd(SetNextDate(currentDate), endLocal, acc \cup {formatDateToString(currentDate)})
    ELSE acc

\* the while loop of getAvailableDates: every day from currentDate to endLocal
RECURSIVE WalkDates(_, _, _)
WalkDates(currentDate, endLocal, acc) ==
    IF currentDate <= endLocal
    THEN WalkDates(SetNextDate(currentDate), endLocal, acc \cup {formatDateToString(currentDate)})
    ELSE acc

\* a forEach that keeps the days of the last Open record only
RECURSIVE AvailableFromLastOnly(_, _, _)
AvailableFromLastOnly(recs, i, acc) ==
    IF i > Len(recs) THEN acc
    ELSE LET m == recs[i] IN
         IF StatusIs(m.status, "Open") /\ m.startDate # <<>> /\ m.endDate # <<>>
         THEN AvailableFromLastOnly(recs, i + 1,
                  WalkDates(ToLocalDate(m.startDate[1]), ToLocalDate(m.endDate[1]), {}))
         ELSE AvailableFromLastOnly(recs, i + 1, acc)

\* the forEach of getAvailableDates over monthRecords, from index i
RECURSIVE AvailableFrom(_, _, _)
AvailableFrom(recs, i, acc) ==
    IF i > Len(recs) THEN acc
    ELSE LET m == recs[i] IN
         IF StatusIs(m.status, "Open") /\ m.startDate # <<>> /\ m.endDate # <<>>
         THEN AvailableFrom(recs, i + 1,
                  WalkDates(ToLocalDate(m.startDate[1]), ToLocalDate(m.endDate[1]), acc))
         ELSE AvailableFrom(recs, i + 1, acc)

getAvailableDates(mRecords, statusField, startField, endField) ==
    IF MissingConfig(mRecords, statusField, startField, endField) THEN {}
    ELSE AvailableFrom(mRecords[1], 1, {})

----------------------------------------------------------------------------
(* EditableCell: the field, the values derived on every render *)

MaxInFlight == 2

TaskIds == {"t1", "t2"}
Options == {"optA", "optB"}
Texts == {"", "a", "b"}

\* the option of the Name field that carries the current user's name
UserOption == "optA"

\* The cells of the model: a field name and a field type each
FieldKinds ==
    { [name |-> "Task", type |-> "multipleRecordLinks"],
      [name |-> "Date", type |-> "date"],
      [name |-> "Project Import", type |-> "singleLineText"],
      [name |-> "Time Task Type", type |-> "singleSelect"],
      [name |-> "Warning", type |-> "formula"],
      [name |-> "Name", type |-> "singleSelect"],
      [name |-> "Comments", type |-> "singleLineText"],
      [name |-> "Tags", type |-> "multipleSelects"],
      [name |-> "Project from Task", type |-> "multipleRecordLinks"] }

shouldBeEditable ==
    field.name \in {"Project Import", "Date", "Individual Hours", "Project from Task",
                    "Warning", "Timesheet Notes", "Time Task Type", "Delete", "Task"}
isNameField == field.name = "Name"
isTaskField == field.name = "Task"
isFormula == field.type = "formula"
isLookup == field.type \in {"multipleLookupValues", "rollup"}
isDateField == field.type \in {"date", "dateTime"}
isTextField == field.type \in {"singleLineText", "multilineText"}
isLinkField == field.type = "multipleRecordLinks"

\* isClosed || isFormula || isLookup || !canEdit, for given render values
isReadOnly(closed, ce) == closed \/ isFormula \/ isLookup \/ ~ce

\* shouldBeEditable && !isFormula && !isLookup && !isClosed
AlwaysInput(closed) == shouldBeEditable /\ ~isFormula /\ ~isLookup /\ ~closed

\* the values the host can hold in the field of the cell
HostValues ==
    IF isLinkField /\ isTaskField THEN {<<>>} \cup {<<t>> : t \in TaskIds}
    ELSE IF isLinkField THEN {<<>>, <<"t1">>}
    ELSE IF field.type = "singleSelect" THEN {<<>>} \cup {<<o>> : o \in Options}
    ELSE IF field.type = "multipleSelects" THEN {{}, {UserOption}}
    ELSE IF isDateField THEN {<<>>, <<DateA>>, <<DateB>>}
    ELSE Texts

\* ---- valueFormatter.js ----
\* A JavaScript value: t is its kind.  An object carries the optional properties
\* name, displayName and email (<<>> when it has none, <<s>> when it is s).
\* A property that holds null or the number 5 instead of a string is written
\* NullValue or NumberValue.
NullValue == "\\null"
NumberValue == "\\5"
Null == [t |-> "null"]
Undefined == [t |-> "undefined"]
Num(n) == [t |-> "number", v |-> n]
Bool(b) == [t |-> "boolean", v |-> b]
\* {id}: the value the cell writes for a choice
ObjId(id) ==
    [t |-> "object", name |-> <<>>, displayName |-> <<>>, email |-> <<>>, id |-> id]
Str(v) == [t |-> "string", v |-> v]
DateObj(i) == [t |-> "date", v |-> i]
Arr(items) == [t |-> "array", v |-> items]
Obj(name, displayName, email) ==
    [t |-> "object", name |-> name, displayName |-> displayName, email |-> email]

\* x.p is truthy: the property is there and neither the empty string nor null
Truthy(p) == p # <<>> /\ p[1] \notin {"", NullValue}

\* toISOString().split('T')[0]: the calendar day of the instant in UTC
ISODate(i) ==
    LET c == CivilFrom(2024, 1, i \div 24)
    IN  ToString(c.year) \o "-" \o PadStart2(c.month) \o "-" \o PadStart2(c.day)

\* String(value): a Date prints its local date and time, a plain object does not
\* print its properties
StringOf(value) ==
    IF value.t = "string" THEN value.v
    ELSE IF value.t = "date"
    THEN "Date " \o formatDateToString(value.v) \o " " \o PadStart2((value.v + tz) % 24) \o "h"
    ELSE IF value.t = "object" THEN "[object Object]"
    ELSE IF value.t = "number" THEN ToString(value.v)
    ELSE IF value.t = "boolean" THEN (IF value.v THEN "true" ELSE "false")
    ELSE value.t

\* item?.name || item?.displayName || String(item)
NameOrDisplayName(item) ==
    IF item.t = "object" /\ Truthy(item.name) THEN item.name[1]
    ELSE IF item.t = "object" /\ Truthy(item.displayName) THEN item.displayName[1]
    ELSE StringOf(item)

\* item?.email, else String(item)
EmailOrStringNameFirst(item) ==
    IF item.t = "object" /\ Truthy(item.name) THEN item.name[1]
    ELSE IF item.t = "object" /\ Truthy(item.email) THEN item.email[1]
    ELSE StringOf(item)

EmailOrString(item) ==
    IF item.t = "object" /\ Truthy(item.email) THEN item.email[1] ELSE StringOf(item)

RECURSIVE JoinNames(_, _)
JoinNames(items, email) ==
    IF items = <<>> THEN ""
    ELSE LET one == IF Head(items).t = "string" THEN Head(items).v
                    ELSE IF email THEN EmailOrString(Head(items))
                    ELSE NameOrDisplayName(Head(items))
             str == IF one = NumberValue THEN "5" ELSE one
         IN  IF Len(items) = 1 THEN str ELSE str \o ", " \o JoinNames(Tail(items), email)

formatDisplayValue(value, fieldType, fieldName) ==
    LET isEmailField == fieldName = "Email (from Name)"
        isProjectFromTaskField ==
            fieldName \in {"Project from Task", "Project from Task - Ext"}
        isObject == value.t \in {"object", "date"}
    IN  IF value.t \in {"null", "undefined"} THEN ""
        ELSE IF isEmailField /\ value.t = "string" THEN value.v
        ELSE IF isEmailField /\ value.t = "array" THEN JoinNames(value.v, TRUE)
        ELSE IF isEmailField /\ isObject THEN EmailOrString(value)
        ELSE IF isProjectFromTaskField /\ value.t = "string" THEN value.v
        ELSE IF isProjectFromTaskField /\ value.t = "array" THEN JoinNames(value.v, FALSE)
        ELSE IF isProjectFromTaskField /\ isObject THEN NameOrDisplayName(value)
        ELSE IF value.t = "array" THEN JoinNames(value.v, FALSE)
        ELSE IF isObject
        THEN IF fieldType \in {"singleSelect", "createdBy", "lastModifiedBy", "singleCollaborator"}
             THEN NameOrDisplayName(value)
             ELSE IF value.t = "object" /\ value.name # <<>> THEN value.name[1]
             ELSE IF value.t = "object" /\ value.displayName # <<>> THEN value.displayName[1]
             ELSE StringOf(value)
        ELSE IF value.t = "date"
        THEN IF fieldType = "dateTime"
             THEN formatDateToString(value.v) \o "T" \o PadStart2((value.v + tz) % 24) \o ":00"
             ELSE ISODate(value.v)
        ELSE StringOf(value)

\* the names the host shows for choices and linked records
DisplayName(id) ==
    IF id = "optA" THEN "Alpha" ELSE IF id = "optB" THEN "Beta"
    ELSE IF id = "t1" THEN "Task 1" ELSE "Task 2"

\* the order in which the host lists the selected choices
RECURSIVE ChoiceList(_)
ChoiceList(ids) ==
    IF ids = {} THEN <<>>
    ELSE LET first == IF "optA" \in ids THEN "optA" ELSE CHOOSE o \in ids : TRUE
         IN  <<Obj(<<DisplayName(first)>>, <<>>, <<>>)>> \o ChoiceList(ids \ {first})

\* the cell value as getCellValue / getCellValueAsString hand it to the cell
\* (lines 99-105): a string for text, formula and date-only fields, {id, name}
\* for a choice, an array of them for choices and linked records, '' for nothing
CellValueOf(cv) ==
    IF isTextField \/ isFormula THEN Str(cv)
    ELSE IF field.type = "multipleSelects"
    THEN (IF cv = {} THEN Str("") ELSE Arr(ChoiceList(cv)))
    ELSE IF cv = <<>> THEN Str("")
    ELSE IF isDateField THEN Str(ISODate(cv[1]))
    ELSE IF field.type = "singleSelect" THEN Obj(<<DisplayName(cv[1])>>, <<>>, <<>>)
    ELSE Arr(<<Obj(<<DisplayName(cv[1])>>, <<>>, <<>>)>>)

\* the value updateRecordAsync was given, as handleSave and handleDateSelect format
\* it afterwards: null, the buffer string, or the Date built from the picked day
SavedValueOf(value) ==
    IF value = <<>> THEN Null
    ELSE IF isDateField THEN DateObj(value[1])
    ELSE Str(value[1])

\* the creation modal's payload for the value of a date field, lines 325-331 of
\* handleCreate: <<>> when the field is left out
datePayload(value) ==
    IF value.t = "date" THEN <<ISODate(value.v)>>
    ELSE IF value.t = "string" THEN <<value.v>>
    ELSE <<>>

----------------------------------------------------------------------------
(* The state of one cell as a record, so that a handler's updates and the   *)
(* effects that follow its re-render compose.                               *)

CellState ==
    [isEditing |-> isEditing, showCalendar |-> showCalendar, editValue |-> editValue,
     isSaving |-> isSaving, linkedRecords |-> linkedRecords, searchTerm |-> searchTerm,
     showLinkedRecordDropdown |-> showLinkedRecordDropdown,
     savedSelectedIds |-> savedSelectedIds,
     selectedMultipleSelectIds |-> selectedMultipleSelectIds,
     justSavedTaskId |-> justSavedTaskId,
     lastProcessedCellValueRef |-> lastProcessedCellValueRef,
     effectDeps |-> effectDeps, pending |-> pending, timers |-> timers, fetches |-> fetches,
     alert |-> "none", unhandledRejection |-> FALSE]

\* useState initial values, for the render value isClosed at mount
MountState(closed) ==
    [isEditing |-> AlwaysInput(closed), showCalendar |-> FALSE, editValue |-> "",
     isSaving |-> FALSE, linkedRecords |-> {}, searchTerm |-> "",
     showLinkedRecordDropdown |-> FALSE, savedSelectedIds |-> <<>>,
     selectedMultipleSelectIds |-> {}, justSavedTaskId |-> <<>>,
     lastProcessedCellValueRef |-> <<>>, effectDeps |-> <<>>, pending |-> <<>>,
     timers |-> <<>>, fetches |-> {}, alert |-> "none",
     unhandledRejection |-> FALSE]

\* an updateRecordAsync call: the commit path, the value sent, what the closure holds
\* a fetchForeignRecordsAsync call: its search term, and whether the call site
\* handles a rejection (try / catch or .catch)
Fetch(term, handled) == [term |-> term, handled |-> handled]

\* getCurrentField, lines 47-53: by id, else by name, else the field prop itself
getCurrentField == IF fieldResolves = "none" THEN "stale" ELSE "current"

\* the field whose id keys the update: handleSave, handleDateSelect, the multiple
\* select and the linked-record dropdown use field.id, the others getCurrentField()
FieldOfUpdate(path) ==
    IF path \in {"handleSave", "dateSelect", "multiSelect", "linked"}
    THEN (IF fieldResolves = "id" THEN "current" ELSE "stale")
    ELSE getCurrentField

Mutation(path, value, closure) ==
    [path |-> path, value |-> value, closure |-> closure, target |-> FieldOfUpdate(path)]

\* the effect at lines 134-179: runs after every render (its dependency list
\* holds functions created anew by each render)
NameEffect(s, cv, closed, ce) ==
    IF /\ isNameField /\ field.type = "singleSelect" /\ ~isFormula /\ ~isLookup /\ ~closed
       /\ cv = <<>>
       /\ ce
    THEN [s EXCEPT !.pending = Append(@, Mutation("nameAuto", <<UserOption>>, <<>>))]
    ELSE s

\* an updater without the branch for the id just saved
TaskSyncNoGuard(prevSavedIds, currentIds, justSaved) ==
    IF currentIds # prevSavedIds
    THEN IF currentIds = <<>> /\ prevSavedIds # <<>> THEN prevSavedIds
         ELSE IF currentIds # <<>> THEN currentIds
         ELSE <<>>
    ELSE prevSavedIds

\* the updater passed to setSavedSelectedIds at lines 296-318
TaskSync(prevSavedIds, currentIds, justSaved) ==
    IF currentIds # prevSavedIds
    THEN IF justSaved # <<>> /\ prevSavedIds # <<>> /\ justSaved[1] = prevSavedIds[1]
         THEN prevSavedIds
         ELSE IF currentIds = <<>> /\ prevSavedIds # <<>> THEN prevSavedIds
         ELSE IF currentIds # <<>> THEN currentIds
         ELSE <<>>
    ELSE prevSavedIds

\* lines 185-224 of the synchronising effect: the edit buffer per field type
SyncBuffer(s, cv) ==
    IF field.type = "singleSelect"
    THEN IF s.editValue = "" /\ cv # <<>> THEN [s EXCEPT !.editValue = cv[1]]
         ELSE IF cv = <<>> /\ s.editValue # "" THEN [s EXCEPT !.editValue = ""]
         ELSE s
    ELSE IF field.type = "multipleSelects"
    THEN IF cv # s.selectedMultipleSelectIds
         THEN [s EXCEPT !.selectedMultipleSelectIds = cv] ELSE s
    ELSE IF isTextField
    THEN IF s.editValue # formatDisplayValue(CellValueOf(cv), field.type, field.name)
         THEN [s EXCEPT !.editValue = formatDisplayValue(CellValueOf(cv), field.type, field.name)] ELSE s
    ELSE IF s.editValue = "" THEN [s EXCEPT !.editValue = formatDisplayValue(CellValueOf(cv), field.type, field.name)]
    ELSE s

\* lines 228-266: a searchable linked-record field
SyncLinked(s, cv) ==
    IF isLinkField /\ s.isEditing /\ ~isNameField /\ ~isTaskField
    THEN [s EXCEPT !.savedSelectedIds = IF cv # @ THEN cv ELSE @,
                   !.fetches = @ \cup {Fetch(s.searchTerm, FALSE)}]
    ELSE s

\* lines 269-353: the Task field
SyncTask(s, cv) ==
    IF isLinkField /\ isTaskField /\ s.isEditing
    THEN LET s1 == IF s.lastProcessedCellValueRef # <<cv>>
                   THEN [s EXCEPT
                           !.savedSelectedIds =
                               IF s.lastProcessedCellValueRef = <<>>
                               THEN (IF cv # <<>> THEN cv ELSE @)
                               ELSE TaskSync(@, cv, s.justSavedTaskId),
                           !.lastProcessedCellValueRef = <<cv>>]
                   ELSE s
         IN  IF s1.linkedRecords = {}
             THEN [s1 EXCEPT !.fetches = @ \cup {Fetch("", FALSE)}]
             ELSE s1
    ELSE s

\* the body of the synchronising effect, lines 182-355
SyncEffect(s, cv, closed) ==
    IF AlwaysInput(closed)
    THEN CHOOSE r \in { SyncTask(b, cv) :
                          b \in { SyncLinked(a, cv) : a \in {SyncBuffer(s, cv)} } } : TRUE
    ELSE s

\* the values of the effect's dependency list that can change
Deps(s, cv, ce) ==
    <<cv, s.isEditing, s.editValue, s.searchTerm, s.selectedMultipleSelectIds, ce>>

\* the fetch in the render body of the Task select, lines 597-608
TaskRenderFetch(s) ==
    IF s.isEditing /\ isLinkField /\ isTaskField /\ s.linkedRecords = {}
    THEN [s EXCEPT !.fetches = @ \cup {Fetch("", FALSE)}]
    ELSE s

\* One render and the effects after it; a state update made by the
\* synchronising effect renders again, until its dependencies are unchanged.
RECURSIVE Render(_, _, _, _)
Render(s, cv, closed, ce) ==
    CHOOSE out \in
        { IF Deps(r, cv, ce) = r.effectDeps THEN r
          ELSE Render(SyncEffect([r EXCEPT !.effectDeps = Deps(r, cv, ce)], cv, closed),
                      cv, closed, ce) : r \in {TaskRenderFetch(s)} } : TRUE

\* a render caused by an event: the Name effect once, then the rest
AfterEvent(s, cv, closed, ce) ==
    CHOOSE out \in { Render(n, cv, closed, ce) : n \in {NameEffect(s, cv, closed, ce)} } : TRUE

----------------------------------------------------------------------------
(* What a render shows *)

\* the branch of the editing render that draws the cell
Branch(s) ==
    IF ~s.isEditing THEN "view"
    ELSE IF isLinkField /\ ~isNameField THEN (IF isTaskField THEN "task" ELSE "linked")
    ELSE IF field.type = "singleSelect" /\ ~isNameField THEN "singleSelect"
    ELSE IF field.type = "multipleSelects" THEN "multiSelect"
    ELSE IF field.name = "Date" /\ isDateField /\ monthRecords # <<>> THEN "date"
    ELSE "input"

\* the CalendarPicker portal is part of the date render and of the non-editing render
CalendarShown(s) == s.showCalendar /\ Branch(s) \in {"view", "date"}

\* lines 573-576: savedSelectedIds before the host value
selectedId(s, cv) ==
    IF s.savedSelectedIds # <<>> THEN s.savedSelectedIds[1]
    ELSE IF cv # <<>> THEN cv[1] ELSE ""

\* lines 615-632: the options of the Task select
recordsToDisplay(s, cv) ==
    IF selectedId(s, cv) # "" /\ selectedId(s, cv) \notin s.linkedRecords /\ cv # <<>>
    THEN s.linkedRecords \cup {cv[1]}
    ELSE s.linkedRecords

\* the days the calendar can show, as month and day of 2024
CalendarDays == {<<1, 30>>, <<1, 31>>, <<2, 1>>, <<2, 2>>, <<2, 3>>}

\* an availability test that lets every day through
isDateAvailableAlways(date, available) == date = date /\ available = available

isDateAvailable(date, available) == formatDateToString(date) \in available

----------------------------------------------------------------------------
(* Handlers: each maps the cell state of the render it was created in to the *)
(* state after the handler's synchronous part                               *)

handleClick(s, cv, closed, ce) ==
    IF AlwaysInput(closed)
    THEN IF field.name = "Date" /\ isDateField /\ monthRecords # <<>>
         THEN [s EXCEPT !.showCalendar = TRUE] ELSE s
    ELSE IF isReadOnly(closed, ce) THEN s
    ELSE IF isDateField /\ monthRecords # <<>> THEN [s EXCEPT !.showCalendar = TRUE]
    ELSE [s EXCEPT !.isEditing = TRUE,
                   !.editValue = formatDisplayValue(CellValueOf(cv), field.type, field.name),
                   !.fetches = IF isLinkField
                               THEN @ \cup {Fetch("", FALSE)} ELSE @]

handleDateSelect(s, date, closed, ce) ==
    IF ~ce THEN [s EXCEPT !.showCalendar = FALSE, !.alert = "noPermission"]
    ELSE [s EXCEPT !.showCalendar = FALSE,
                   !.isSaving = TRUE,
                   !.pending = Append(@, Mutation("dateSelect", <<ToLocalDate(date)>>,
                                                  [closed |-> closed]))]

\* lines 454-486: the value handleSave sends for the edit buffer
valueToSaveAsTyped(s) == <<s.editValue>>

valueToSave(s) ==
    IF isTextField THEN (IF s.editValue = "" THEN <<>> ELSE <<s.editValue>>)
    ELSE <<s.editValue>>

handleSave(s, closed) ==
    IF s.isSaving \/ closed THEN s
    ELSE IF fieldResolves # "id" THEN s
    ELSE [s EXCEPT !.isSaving = TRUE,
                   !.pending = Append(@, Mutation("handleSave", valueToSave(s), <<>>))]

handleCancel(s) ==
    [s EXCEPT !.isEditing = FALSE, !.editValue = "", !.linkedRecords = {}, !.searchTerm = ""]

\* onChange of the single select, lines 913-959; o = "" is the empty option
SingleSelectChange(s, o) ==
    IF o \in Options
    THEN [s EXCEPT !.editValue = o,
                   !.pending = Append(@, Mutation("singleSelect", <<o>>, <<>>))]
    ELSE [s EXCEPT !.editValue = "",
                   !.pending = Append(@, Mutation("singleSelect", <<>>, <<>>))]

\* onChange of the multiple select, lines 991-1022
MultiSelectChange(s, selectedOptions, cv) ==
    [s EXCEPT !.selectedMultipleSelectIds = selectedOptions,
              !.isSaving = TRUE,
              !.pending = Append(@, Mutation("multiSelect", selectedOptions \cap Options,
                                             [currentIds |-> cv]))]

\* onMouseDown of a candidate in the linked-record dropdown, lines 844-886
LinkedMouseDown(s, id, cv, closed) ==
    IF closed THEN s
    ELSE [s EXCEPT !.savedSelectedIds = <<id>>,
                   !.isSaving = TRUE,
                   !.pending = Append(@, Mutation("linked", <<id>>, [currentValue |-> cv]))]

\* onChange of the Task select, lines 651-746; newSelectedId = "" clears
TaskChangeUnchecked(s, newSelectedId) ==
    [s EXCEPT !.savedSelectedIds = <<newSelectedId>>,
              !.justSavedTaskId = <<newSelectedId>>,
              !.isSaving = TRUE,
              !.pending = Append(@, Mutation("task", <<newSelectedId>>, <<>>))]

TaskChange(s, newSelectedId) ==
    IF newSelectedId # ""
    THEN IF newSelectedId \in s.linkedRecords
         THEN [s EXCEPT !.savedSelectedIds = <<newSelectedId>>,
                        !.justSavedTaskId = <<newSelectedId>>,
                        !.isSaving = TRUE,
                        !.pending = Append(@, Mutation("task", <<newSelectedId>>, <<>>))]
         ELSE [s EXCEPT !.alert = "taskNotFound"]
    ELSE [s EXCEPT !.isSaving = TRUE,
                   !.justSavedTaskId = <<>>,
                   !.pending = Append(@, Mutation("taskClear", <<>>, <<>>))]

\* what runs when updateRecordAsync resolves, per commit path
OnSuccess(s, m) ==
    IF m.path = "handleSave"
    THEN [(IF ~shouldBeEditable \/ isFormula \/ isLookup
           THEN [s EXCEPT !.isEditing = FALSE]
           ELSE [s EXCEPT !.editValue = formatDisplayValue(SavedValueOf(m.value), field.type, field.name)])
          EXCEPT !.isSaving = FALSE]
    ELSE IF m.path = "dateSelect"
    THEN [(IF AlwaysInput(m.closure.closed)
           THEN [s EXCEPT !.editValue = formatDisplayValue(SavedValueOf(m.value), field.type, field.name)]
           ELSE s)
          EXCEPT !.isSaving = FALSE]
    ELSE IF m.path = "multiSelect" THEN [s EXCEPT !.isSaving = FALSE]
    ELSE IF m.path = "linked"
    THEN [s EXCEPT !.showLinkedRecordDropdown = FALSE, !.searchTerm = "", !.isSaving = FALSE]
    ELSE IF m.path = "task"
    THEN [s EXCEPT !.timers = Append(@, [kind |-> "check", id |-> m.value[1]]),
                   !.isSaving = FALSE]
    ELSE IF m.path = "taskClear"
    THEN [s EXCEPT !.savedSelectedIds = <<>>, !.isSaving = FALSE]
    ELSE s

\* what runs when updateRecordAsync rejects, per commit path
OnFailure(s, m) ==
    IF m.path \in {"handleSave", "dateSelect", "taskClear", "singleSelect"}
    THEN [s EXCEPT !.isSaving = IF m.path = "singleSelect" THEN @ ELSE FALSE,
                   !.alert = "failed"]
    ELSE IF m.path = "multiSelect"
    THEN [s EXCEPT !.isSaving = FALSE, !.selectedMultipleSelectIds = m.closure.currentIds,
                   !.alert = "failed"]
    ELSE IF m.path = "linked"
    THEN [s EXCEPT !.savedSelectedIds = m.closure.currentValue, !.isSaving = FALSE,
                   !.alert = "failed"]
    ELSE IF m.path = "task"
    THEN [s EXCEPT !.justSavedTaskId = <<>>, !.isSaving = FALSE, !.alert = "failed"]
    ELSE s

\* the setTimeout callbacks of the Task select, lines 689-705
OnTimer(s, t, cv) ==
    IF t.kind = "check"
    THEN IF cv # <<>> /\ cv[1] = t.id
         THEN [s EXCEPT !.justSavedTaskId = <<>>]
         ELSE [s EXCEPT !.timers = Append(@, [kind |-> "clear", id |-> t.id])]
    ELSE [s EXCEPT !.justSavedTaskId = <<>>]

----------------------------------------------------------------------------
(* The cell and its host as a state machine *)

MaxTimers == 2

\* the cell state s becomes the state of the cell
Commit(s) ==
    /\ Len(s.pending) <= MaxInFlight
    /\ Len(s.timers) <= MaxTimers
    /\ isEditing' = s.isEditing
    /\ showCalendar' = s.showCalendar
    /\ editValue' = s.editValue
    /\ isSaving' = s.isSaving
    /\ linkedRecords' = s.linkedRecords
    /\ searchTerm' = s.searchTerm
    /\ showLinkedRecordDropdown' = s.showLinkedRecordDropdown
    /\ savedSelectedIds' = s.savedSelectedIds
    /\ selectedMultipleSelectIds' = s.selectedMultipleSelectIds
    /\ justSavedTaskId' = s.justSavedTaskId
    /\ lastProcessedCellValueRef' = s.lastProcessedCellValueRef
    /\ effectDeps' = s.effectDeps
    /\ pending' = s.pending
    /\ timers' = s.timers
    /\ fetches' = s.fetches
    /\ alert' = s.alert
    /\ unhandledRejection' = s.unhandledRejection
    /\ UNCHANGED otherVars

\* lines 55 and 108: both are computed by every render
RenderValues ==
    /\ isClosed' = isRecordClosed(record', monthRecords', monthStatusField',
                                  monthStartDateField', monthEndDateField')
    /\ availableDates' = getAvailableDates(monthRecords', monthStatusField',
                                           monthStartDateField', monthEndDateField')

\* an event of the cell itself: the host is as it was, the cell renders again
CellEvent(s) ==
    /\ UNCHANGED <<hostVars, renderVars>>
    /\ \E after \in {AfterEvent(s, cellValue, isClosed, canEdit)} : Commit(after)

\* an event of the host: the cell renders with the new props
HostEvent ==
    /\ RenderValues
    /\ \E after \in {AfterEvent(CellState, cellValue', isClosed', canEdit')} : Commit(after)

Remove(seq, i) == SubSeq(seq, 1, i - 1) \o SubSeq(seq, i + 1, Len(seq))

StatusOpen == [kind |-> "string", name |-> "Open"]
StatusClosed == [kind |-> "string", name |-> "Closed"]

\* the Month table of the cell model: the day of DateA, which is the day of every
\* record but that of the Date cell, and for the Date cell the day of DateB too
CellMonths(s1) ==
    << [status |-> s1, startDate |-> <<DateA>>, endDate |-> <<DateA>>] >>
    \o (IF field.name = "Date"
        THEN << [status |-> StatusOpen, startDate |-> <<DateB>>, endDate |-> <<DateB>>] >>
        ELSE << >>)

\* TimesheetApp with no rows and nothing selected
AppIdle ==
    /\ records = <<>>
    /\ selectedRecords = {}
    /\ showDeleteModal = FALSE
    /\ deleteField = "ok"
    /\ canUpdateRecords = TRUE
    /\ runs = <<>>
    /\ appAlert = "none"
    /\ updateTrigger = 0

\* no call of formatDisplayValue is followed
FormatIdle == formatCall = <<>> /\ formatted = <<>>

\* no record is being created through the modal
CreateIdle ==
    /\ showCreateModal = FALSE
    /\ timesheetTable = TRUE
    /\ formValues = ""
    /\ creations = <<>>
    /\ created = 0
    /\ createAlert = "none"

\* the CreateRecordModal is closed
ModalIdle ==
    /\ CreateIdle
    /\ taskRecords = FALSE
    /\ modalSearchTerm = ""
    /\ modalLinkedRecords = {}
    /\ isFetchingTaskRecords = FALSE
    /\ lookups = <<>>

\* no user event on the picker yet
NoPickerEvent == [kind |-> "none", year |-> 0, month |-> 0, day |-> 0]

\* the CalendarPicker is not rendered
PickerUnmounted ==
    /\ currentMonth = <<>>
    /\ pickerEvent = NoPickerEvent
    /\ pickerCalls = <<>>

\* the components other than the cell are not in use
OthersIdle == fieldResolves = "id" /\ PickerUnmounted /\ AppIdle /\ ModalIdle /\ FormatIdle

\* the cell variables hold the cell state s
CellIs(s) ==
    /\ isEditing = s.isEditing
    /\ showCalendar = s.showCalendar
    /\ editValue = s.editValue
    /\ isSaving = s.isSaving
    /\ linkedRecords = s.linkedRecords
    /\ searchTerm = s.searchTerm
    /\ showLinkedRecordDropdown = s.showLinkedRecordDropdown
    /\ savedSelectedIds = s.savedSelectedIds
    /\ selectedMultipleSelectIds = s.selectedMultipleSelectIds
    /\ justSavedTaskId = s.justSavedTaskId
    /\ lastProcessedCellValueRef = s.lastProcessedCellValueRef
    /\ effectDeps = s.effectDeps
    /\ pending = s.pending
    /\ timers = s.timers
    /\ fetches = s.fetches
    /\ alert = s.alert
    /\ unhandledRejection = s.unhandledRejection

\* the render values of the first render
FirstRenderValues ==
    /\ isClosed = isRecordClosed(record, monthRecords, monthStatusField,
                                 monthStartDateField, monthEndDateField)
    /\ availableDates = getAvailableDates(monthRecords, monthStatusField,
                                          monthStartDateField, monthEndDateField)

\* the first render and the effects after it
Mounted ==
    /\ FirstRenderValues
    /\ \E s \in {AfterEvent(MountState(isClosed), cellValue, isClosed, canEdit)} : CellIs(s)

\* the props of a cell at its first render
HostInit ==
    /\ field \in FieldKinds
    /\ tz \in IF isDateField THEN TzOffsets ELSE {2}
    /\ canEdit \in BOOLEAN
    /\ monthStatusField = TRUE /\ monthStartDateField = TRUE /\ monthEndDateField = TRUE
    /\ \E s1 \in {StatusOpen, StatusClosed} :
          monthRecords = << CellMonths(s1) >>
    /\ cellValue \in HostValues
    /\ record = [hasDateField |-> TRUE,
                 Date |-> IF field.name = "Date" THEN cellValue ELSE <<DateA>>]

Init ==
    /\ HostInit
    /\ OthersIdle
    /\ Mounted

(* ---- the user ---- *)

\* a click on the non-editing cell, lines 1149-1155
ClickCell ==
    /\ Branch(CellState) = "view" /\ ~AlwaysInput(isClosed) /\ ~isNameField
    /\ CellEvent(handleClick(CellState, cellValue, isClosed, canEdit))

\* a click on the read-only date input, lines 1065-1069
ClickDateInput ==
    /\ Branch(CellState) = "date" /\ ~isClosed
    /\ CellEvent([CellState EXCEPT !.showCalendar = TRUE])

\* CalendarPicker: a click on an available day calls onDateSelect
SelectDate ==
    /\ CalendarShown(CellState)
    /\ \E d \in CalendarDays :
          /\ isDateAvailable(NewDate(2024, d[1], d[2]), availableDates)
          /\ CellEvent(handleDateSelect(CellState, NewDate(2024, d[1], d[2]), isClosed, canEdit))

\* CalendarPicker: onClose
CloseCalendar ==
    /\ CalendarShown(CellState)
    /\ CellEvent([CellState EXCEPT !.showCalendar = FALSE])

\* typing in the text input, line 1110
TypeText ==
    /\ Branch(CellState) = "input" /\ ~isClosed
    /\ \E v \in Texts : v # editValue /\ CellEvent([CellState EXCEPT !.editValue = v])

\* Enter or blur of the text input, lines 1111-1112
BlurOrEnter ==
    /\ Branch(CellState) = "input" /\ ~isClosed
    /\ CellEvent(handleSave(CellState, isClosed))

\* Escape in the text input
Escape ==
    /\ Branch(CellState) = "input" /\ ~isClosed
    /\ CellEvent(handleCancel(CellState))

ChangeSingleSelect ==
    /\ Branch(CellState) = "singleSelect" /\ ~isClosed
    /\ \E o \in Options \cup {""} :
          /\ o # (IF editValue # "" THEN editValue
                  ELSE IF cellValue # <<>> THEN cellValue[1] ELSE "")
          /\ CellEvent(SingleSelectChange(CellState, o))

ChangeMultiSelect ==
    /\ Branch(CellState) = "multiSelect" /\ ~isClosed
    /\ \E sel \in SUBSET Options :
          /\ sel # (IF selectedMultipleSelectIds # {} THEN selectedMultipleSelectIds
                    ELSE cellValue)
          /\ CellEvent(MultiSelectChange(CellState, sel, cellValue))

\* focus of the search input, lines 799-809
FocusLinked ==
    /\ Branch(CellState) = "linked" /\ ~isClosed /\ ~showLinkedRecordDropdown
    /\ CellEvent([CellState EXCEPT
                    !.showLinkedRecordDropdown = TRUE,
                    !.searchTerm = "",
                    !.fetches = IF linkedRecords = {}
                                THEN @ \cup {Fetch("", FALSE)} ELSE @])

\* blur of the search input: the dropdown closes (after 200 ms)
BlurLinked ==
    /\ Branch(CellState) = "linked" /\ showLinkedRecordDropdown
    /\ CellEvent([CellState EXCEPT !.showLinkedRecordDropdown = FALSE])

PickLinked ==
    /\ Branch(CellState) = "linked" /\ showLinkedRecordDropdown
    /\ \E id \in linkedRecords :
          CellEvent(LinkedMouseDown(CellState, id, cellValue, isClosed))

ChangeTask ==
    /\ Branch(CellState) = "task" /\ ~isClosed /\ ~isSaving
    /\ \E id \in recordsToDisplay(CellState, cellValue) \cup {""} :
          /\ id # selectedId(CellState, cellValue)
          /\ CellEvent(TaskChange(CellState, id))

(* ---- promises and timers ---- *)

\* the host accepts an update only of a user who may update the record, for a
\* field id that is in the table
MutationSucceeds ==
    /\ canEdit
    /\ \E i \in 1..Len(pending) :
          /\ pending[i].target = "current"
          /\ CellEvent(OnSuccess([CellState EXCEPT !.pending = Remove(@, i)], pending[i]))

MutationFails ==
    \E i \in 1..Len(pending) :
        CellEvent(OnFailure([CellState EXCEPT !.pending = Remove(@, i)], pending[i]))

\* all timers wait 2000 ms: they run in the order they were set
TimerFires ==
    /\ timers # <<>>
    /\ CellEvent(OnTimer([CellState EXCEPT !.timers = Tail(@)], Head(timers), cellValue))

\* the candidates a search term finds
Found(term) == IF term = "" THEN TaskIds ELSE TaskIds \cap {term}

FetchResolves ==
    \E f \in fetches :
        CellEvent([CellState EXCEPT !.fetches = @ \ {f}, !.linkedRecords = Found(f.term)])

FetchFails ==
    \E f \in fetches :
        CellEvent([CellState EXCEPT !.fetches = @ \ {f}, !.unhandledRejection = ~f.handled])

(* ---- the host ---- *)

\* the record's value of the field changes: a save arrives, or somebody else edits
HostRefresh ==
    \E v \in HostValues :
        /\ v # cellValue
        /\ cellValue' = v
        /\ record' = IF field.name = "Date" THEN [record EXCEPT !.Date = v] ELSE record
        /\ UNCHANGED <<tz, monthVars, field, canEdit>>
        /\ HostEvent

\* a Month record is closed or opened again
HostSetStatus ==
    \E i \in 1..Len(monthRecords[1]), st \in {StatusOpen, StatusClosed} :
        /\ monthRecords[1][i].status # st
        /\ monthRecords' = << [monthRecords[1] EXCEPT ![i].status = st] >>
        /\ UNCHANGED <<tz, monthStatusField, monthStartDateField, monthEndDateField,
                       record, field, cellValue, canEdit>>
        /\ HostEvent

HostSetPermission ==
    /\ canEdit' = ~canEdit
    /\ UNCHANGED <<tz, monthVars, record, field, cellValue>>
    /\ HostEvent

\* the table re-renders its rows (onUpdate, another cell's change)
ParentRerender ==
    /\ UNCHANGED <<hostVars>>
    /\ HostEvent

Next ==
    \/ ClickCell \/ ClickDateInput \/ SelectDate \/ CloseCalendar
    \/ TypeText \/ BlurOrEnter \/ Escape
    \/ ChangeSingleSelect \/ ChangeMultiSelect
    \/ FocusLinked \/ BlurLinked \/ PickLinked \/ ChangeTask
    \/ MutationSucceeds \/ MutationFails \/ TimerFires \/ FetchResolves \/ FetchFails
    \/ HostRefresh \/ HostSetStatus \/ HostSetPermission \/ ParentRerender

Spec == Init /\ [][Next]_vars

----------------------------------------------------------------------------
(* The period functions on their own: the props of a read-only cell are drawn *)
(* from the bounded inputs above, and the host adds Month records.            *)

InitPeriods ==
    /\ tz \in TzOffsets
    /\ field = [name |-> "Warning", type |-> "formula"]
    /\ cellValue = ""
    /\ canEdit = TRUE
    /\ \E missing \in {"none", "records", "status", "start", "end", "dateField"} :
          /\ monthRecords = IF missing = "records" THEN <<>> ELSE << <<>> >>
          /\ monthStatusField = (missing # "status")
          /\ monthStartDateField = (missing # "start")
          /\ monthEndDateField = (missing # "end")
          /\ record \in IF missing = "none"
                        THEN {[hasDateField |-> TRUE, Date |-> d] : d \in RecordDates}
                        ELSE {[hasDateField |-> missing # "dateField", Date |-> <<DateB>>]}
    /\ OthersIdle
    /\ Mounted

\* useRecords delivers one more record of the Month table
AddMonthRecord ==
    /\ monthRecords # <<>>
    /\ Len(monthRecords[1]) < MaxPeriods
    /\ \E p \in Periods : monthRecords' = << Append(monthRecords[1], p) >>
    /\ UNCHANGED <<tz, monthStatusField, monthStartDateField, monthEndDateField,
                   record, field, cellValue, canEdit>>
    /\ HostEvent

\* the Date of the record is edited elsewhere
ChangeRecordDate ==
    /\ record.hasDateField
    /\ \E d \in RecordDates : d # record.Date /\ record' = [record EXCEPT !.Date = d]
    /\ UNCHANGED <<tz, monthVars, field, cellValue, canEdit>>
    /\ HostEvent

NextPeriods == AddMonthRecord \/ ChangeRecordDate

SpecPeriods == InitPeriods /\ [][NextPeriods]_vars

\* getAvailableDates alone: the configuration is complete, the record keeps its
\* Date, and the host adds Month records
InitOrder ==
    /\ InitPeriods
    /\ monthRecords # <<>> /\ monthStatusField /\ monthStartDateField /\ monthEndDateField
    /\ record.Date = <<DateB>>

SpecOrder == InitOrder /\ [][AddMonthRecord]_vars

----------------------------------------------------------------------------
(* The commit paths of a cell whose field is renamed, recreated or deleted   *)
(* in the table after the render that gave the cell its field prop           *)

FieldResolutions == {"id", "name", "none"}

InitField ==
    /\ HostInit
    /\ canEdit
    /\ OthersIdle
    /\ Mounted
    /\ ~isClosed

\* the table's fields change; the cell has not rendered again yet
HostFieldChange ==
    /\ \E r \in FieldResolutions : r # fieldResolves /\ fieldResolves' = r
    /\ UNCHANGED <<hostVars, renderVars, cellVars, pickerVars, appVars, modalVars, formatVars>>

NextField ==
    \/ ClickCell \/ ClickDateInput \/ SelectDate
    \/ TypeText \/ BlurOrEnter
    \/ ChangeSingleSelect \/ ChangeMultiSelect
    \/ FocusLinked \/ PickLinked \/ ChangeTask
    \/ MutationSucceeds \/ MutationFails \/ TimerFires \/ FetchResolves
    \/ HostFieldChange

SpecField == InitField /\ [][NextField]_vars

----------------------------------------------------------------------------
(* The candidate fetches of a searchable linked-record cell, with typing in  *)
(* the search input                                                          *)

SearchTerms == {"", "t1"}

\* handleLinkedRecordSearch, lines 526-549: the one fetch inside try / catch
handleLinkedRecordSearch(s, term) ==
    [s EXCEPT !.searchTerm = term, !.fetches = @ \cup {Fetch(term, TRUE)}]

\* onChange of the search input, lines 816-822
TypeSearch ==
    /\ Branch(CellState) = "linked" /\ ~isClosed /\ showLinkedRecordDropdown
    /\ \E term \in SearchTerms :
          /\ term # searchTerm
          /\ CellEvent(handleLinkedRecordSearch(CellState, term))

InitFetch ==
    /\ HostInit
    /\ isLinkField
    /\ OthersIdle
    /\ Mounted

NextFetch ==
    \/ ClickCell \/ FocusLinked \/ BlurLinked \/ TypeSearch \/ PickLinked \/ ChangeTask
    \/ FetchResolves \/ FetchFails \/ MutationSucceeds \/ MutationFails \/ TimerFires
    \/ HostRefresh

SpecFetch == InitFetch /\ [][NextFetch]_vars

\* the searches of a cell whose host resolves every fetch
NextSearch ==
    \/ ClickCell \/ FocusLinked \/ BlurLinked \/ TypeSearch \/ FetchResolves \/ HostRefresh

SpecSearch == InitFetch /\ [][NextSearch]_vars

----------------------------------------------------------------------------
(* CalendarPicker, opened by a Date cell. The props it calls are recorded;   *)
(* what the cell does with them is the cell's handleDateSelect and onClose.  *)

\* the months the picker can show are 2024-01 .. 2024-MaxMonth
MaxMonth == 3

PickerMonths == {[year |-> 2024, month |-> m] : m \in 1..MaxMonth}

\* getInitialMonth, lines 14-22: the month of selectedDate, or the month of today
getInitialMonth(cv) ==
    IF cv # <<>>
    THEN {[year |-> Civil(cv[1]).year, month |-> Civil(cv[1]).month]}
    ELSE PickerMonths

\* a call of a prop by the picker
PickerCall(fn, date) == [fn |-> fn, date |-> date]

\* handleDateClick, lines 36-41
handleDateClick(cm, day) ==
    IF isDateAvailable(NewDate(cm.year, cm.month, day), availableDates)
    THEN << PickerCall("onDateSelect", <<NewDate(cm.year, cm.month, day)>>) >>
    ELSE << >>

\* the Date cell has been clicked while its record was open: the picker is mounted
InitCalendar ==
    /\ field = [name |-> "Date", type |-> "date"]
    /\ fieldResolves = "id"
    /\ tz \in TzOffsets
    /\ canEdit \in BOOLEAN
    /\ monthStatusField = TRUE /\ monthStartDateField = TRUE /\ monthEndDateField = TRUE
    /\ \E s1 \in {StatusOpen, StatusClosed} : monthRecords = << CellMonths(s1) >>
    /\ cellValue \in HostValues
    /\ record = [hasDateField |-> TRUE, Date |-> cellValue]
    /\ FirstRenderValues
    /\ ~isClosed
    /\ \E s \in {AfterEvent(MountState(isClosed), cellValue, isClosed, canEdit)} :
          \E t \in {AfterEvent([s EXCEPT !.showCalendar = TRUE], cellValue, isClosed, canEdit)} :
             CellIs(t)
    /\ \E cm \in getInitialMonth(cellValue) : currentMonth = <<cm>>
    /\ pickerEvent = NoPickerEvent
    /\ pickerCalls = <<>>
    /\ AppIdle /\ ModalIdle /\ FormatIdle

\* an event of the picker: the cell and the host are as they were
PickerEvent(ev, cm, calls) ==
    /\ pickerEvent' = ev
    /\ currentMonth' = <<cm>>
    /\ pickerCalls' = calls
    /\ UNCHANGED <<hostVars, renderVars, cellVars, fieldResolves, appVars, modalVars, formatVars>>

\* lines 43-45
prevMonth ==
    /\ currentMonth # <<>> /\ currentMonth[1].month > 1
    /\ PickerEvent([NoPickerEvent EXCEPT !.kind = "prev"],
                   [currentMonth[1] EXCEPT !.month = @ - 1], <<>>)

\* lines 47-49
nextMonth ==
    /\ currentMonth # <<>> /\ currentMonth[1].month < MaxMonth
    /\ PickerEvent([NoPickerEvent EXCEPT !.kind = "next"],
                   [currentMonth[1] EXCEPT !.month = @ + 1], <<>>)

\* a click on the button of a day, lines 105-108: a disabled button has no click
ClickDay ==
    /\ currentMonth # <<>>
    /\ \E day \in 1..DaysInMonth(currentMonth[1].year, currentMonth[1].month) :
          PickerEvent([kind |-> "day", year |-> currentMonth[1].year,
                       month |-> currentMonth[1].month, day |-> day],
                      currentMonth[1],
                      IF isDateAvailable(NewDate(currentMonth[1].year, currentMonth[1].month, day),
                                         availableDates)
                      THEN handleDateClick(currentMonth[1], day)
                      ELSE <<>>)

\* a click on Close or on the backdrop, lines 67 and 125
ClickClose ==
    /\ currentMonth # <<>>
    /\ PickerEvent([NoPickerEvent EXCEPT !.kind = "close"], currentMonth[1],
                   << PickerCall("onClose", <<>>) >>)

NextCalendar == prevMonth \/ nextMonth \/ ClickDay \/ ClickClose

SpecCalendar == InitCalendar /\ [][NextCalendar]_vars

----------------------------------------------------------------------------
(* Properties of the period functions *)

ConfigPresent ==
    monthRecords # <<>> /\ monthStatusField /\ monthStartDateField /\ monthEndDateField

MonthList == IF monthRecords = <<>> THEN <<>> ELSE monthRecords[1]

\* Month record i has the status named n and both of its dates, and the local
\* calendar day numbered day lies in its range, the first and last day included
Covers(i, n, day) ==
    LET m == MonthList[i]
    IN  /\ m.status.kind \in {"string", "choice"} /\ m.status.name = n
        /\ m.startDate # <<>> /\ m.endDate # <<>>
        /\ LocalDay(m.startDate[1]) <= day /\ day <= LocalDay(m.endDate[1])

\* the YYYY-MM-DD key of a local calendar day, counted from 2024-01-01
DayKey(day) ==
    IF day = 28 THEN "2024-01-29" ELSE IF day = 29 THEN "2024-01-30"
    ELSE IF day = 30 THEN "2024-01-31" ELSE IF day = 31 THEN "2024-02-01"
    ELSE IF day = 32 THEN "2024-02-02" ELSE IF day = 33 THEN "2024-02-03"
    ELSE "out of range"

\* C8: with the configuration present and a Date in the record, isRecordClosed is
\* true exactly when the local calendar day of the Date lies in [start, end],
\* bounds included, of some Month record whose status is Closed (string or choice
\* name); Month records of any other status never close it.
C8_ClosedIffInClosedPeriod ==
    (ConfigPresent /\ record.hasDateField /\ record.Date # <<>>)
        => (isClosed <=> \E i \in 1..Len(MonthList) :
                            Covers(i, "Closed", LocalDay(record.Date[1])))

\* the Date is the last day of a Closed period given by a choice object, and an
\* Open period holds the same day
C8_Witness ==
    /\ ConfigPresent /\ record.hasDateField /\ record.Date # <<>>
    /\ isClosed
    /\ \E i, j \in 1..Len(MonthList) :
          /\ MonthList[i].status.kind = "choice"
          /\ Covers(i, "Closed", LocalDay(record.Date[1]))
          /\ LocalDay(MonthList[i].endDate[1]) = LocalDay(record.Date[1])
          /\ Covers(j, "Open", LocalDay(record.Date[1]))

\* C9: isRecordClosed is false when the Month records or one of the three Month
\* fields is missing, when the table has no Date field, when the Date is empty,
\* and when every Closed Month record lacks its start or its end.
C9_FailsOpen ==
    ( \/ ~ConfigPresent
      \/ ~record.hasDateField
      \/ record.Date = <<>>
      \/ \A i \in 1..Len(MonthList) :
            (MonthList[i].status.kind # "none" /\ MonthList[i].status.name = "Closed")
                => (MonthList[i].startDate = <<>> \/ MonthList[i].endDate = <<>>) )
        => ~isClosed

\* the status field is missing although a Closed period holds the record's day
C9_Witness ==
    /\ ~isClosed
    /\ monthRecords # <<>> /\ ~monthStatusField
    /\ record.hasDateField /\ record.Date # <<>>
    /\ \E i \in 1..Len(MonthList) : Covers(i, "Closed", LocalDay(record.Date[1]))

----------------------------------------------------------------------------
(* Properties of the cell *)

\* C1: no update mutation of a commit path is submitted while an earlier update
\* mutation of the same cell is in flight: at most one is in flight at a time.
C1_OneMutationInFlight ==
    Cardinality({ i \in 1..Len(pending) : pending[i].path # "nameAuto" }) <= 1

\* C2: while the just-saved guard holds an id, a step in which the host delivers
\* another Task value leaves the locally selected Task id as it is.
C2_GuardKeepsSelection ==
    [][ (justSavedTaskId # <<>> /\ cellValue' # cellValue)
            => savedSelectedIds' = savedSelectedIds ]_vars

\* the save has resolved, the guard is still set, and the cell has processed a
\* host value that is not the saved id while showing the saved id
C2_Witness ==
    /\ isTaskField /\ isEditing
    /\ justSavedTaskId # <<>> /\ pending = <<>> /\ timers # <<>>
    /\ lastProcessedCellValueRef = <<cellValue>>
    /\ cellValue # justSavedTaskId
    /\ savedSelectedIds = justSavedTaskId

\* C3: with a host value for the Task field processed by the cell, and no save, no
\* guard and no guard timer pending, the Task id shown is the host's Task id.
C3_ShowsHostValue ==
    ( /\ isTaskField /\ isLinkField /\ isEditing
      /\ cellValue # <<>>
      /\ lastProcessedCellValueRef = <<cellValue>>
      /\ pending = <<>> /\ timers = <<>> /\ justSavedTaskId = <<>> )
        => selectedId(CellState, cellValue) = cellValue[1]

\* C4: a timer releases the guard only when the host's Task value is the saved id.
C4_ReleaseOnlyWhenHostMatches ==
    [][ ( /\ timers # <<>> /\ timers' = Tail(timers)
          /\ justSavedTaskId # <<>> /\ justSavedTaskId' = <<>> )
            => cellValue = justSavedTaskId ]_vars

\* C5: a pinned field that is no formula, lookup or rollup, of a record that is
\* not closed, is in the Editing state.
C5_PinnedIsEditing ==
    (shouldBeEditable /\ ~isFormula /\ ~isLookup /\ ~isClosed) => isEditing

\* C6: a cell of a closed record, of a computed field, or of a user without the
\* permission to update is not in the Editing state and shows no calendar.
C6_ReadOnlyIsViewing ==
    (isClosed \/ isFormula \/ isLookup \/ ~canEdit) => (~isEditing /\ ~showCalendar)

\* C7: a step that submits an update mutation is a step of a record that is not
\* in a Closed period.
C7_NoMutationWhenClosed ==
    [][ Len(pending') > Len(pending) => ~isClosed' ]_vars

----------------------------------------------------------------------------
(* TimesheetApp: selecting rows and flagging them for deletion               *)

\* the table's one cell of the model is a formula cell that shows nothing
CellAtRest ==
    /\ HostInit
    /\ field.name = "Warning" /\ cellValue = "" /\ canEdit
    /\ fieldResolves = "id" /\ PickerUnmounted
    /\ Mounted
    /\ ~isClosed

\* everything but TimesheetApp's own state
cellSide == <<hostVars, renderVars, cellVars, fieldResolves, pickerVars, modalVars, formatVars>>

MaxRecords == 3
MaxRuns == 1

\* const batchSize = 50, line 140, scaled down
batchSize == 2

\* line 121
recordsToUpdate == SelectSeq(records, LAMBDA r : r \in selectedRecords)

\* lines 142-150: the updateRecordsAsync call of loop index i
updateBatchOverlapping(list, i) ==
    [ n \in 1..(IF i + batchSize + 1 < Len(list) THEN batchSize + 1 ELSE Len(list) - i) |->
        [id |-> list[i + n], fields |-> "Yes Delete"] ]

updateBatch(list, i) ==
    [ n \in 1..(IF i + batchSize < Len(list) THEN batchSize ELSE Len(list) - i) |->
        [id |-> list[i + n], fields |-> "Yes Delete"] ]

\* lines 84-94
ToggleRecordSelection ==
    /\ \E n \in 1..Len(records) :
          selectedRecords' = IF records[n] \in selectedRecords
                             THEN selectedRecords \ {records[n]}
                             ELSE selectedRecords \cup {records[n]}
    /\ appAlert' = "none"
    /\ UNCHANGED <<records, showDeleteModal, deleteField, canUpdateRecords, runs, updateTrigger>>
    /\ UNCHANGED cellSide

\* lines 96-102
SelectAll ==
    /\ records # <<>>
    /\ selectedRecords' = IF Cardinality(selectedRecords) = Len(records)
                          THEN {}
                          ELSE {records[n] : n \in 1..Len(records)}
    /\ appAlert' = "none"
    /\ UNCHANGED <<records, showDeleteModal, deleteField, canUpdateRecords, runs, updateTrigger>>
    /\ UNCHANGED cellSide

\* lines 104-106 and 164-166
DeleteClick ==
    /\ ~showDeleteModal
    /\ showDeleteModal' = TRUE
    /\ appAlert' = "none"
    /\ UNCHANGED <<records, selectedRecords, deleteField, canUpdateRecords, runs, updateTrigger>>
    /\ UNCHANGED cellSide

DeleteCancel ==
    /\ showDeleteModal
    /\ showDeleteModal' = FALSE
    /\ appAlert' = "none"
    /\ UNCHANGED <<records, selectedRecords, deleteField, canUpdateRecords, runs, updateTrigger>>
    /\ UNCHANGED cellSide

\* handleDeleteConfirm up to its first await, lines 108-150
DeleteConfirm ==
    /\ showDeleteModal
    /\ Len(runs) < MaxRuns
    /\ LET run == [recordsToUpdate |-> recordsToUpdate,
                   i |-> 0, calls |-> <<>>, settled |-> 0, state |-> "awaiting"]
       IN  IF selectedRecords = {}
           THEN showDeleteModal' = FALSE /\ appAlert' = "none" /\ runs' = runs
           ELSE IF deleteField = "none" \/ ~canUpdateRecords
           THEN showDeleteModal' = FALSE /\ appAlert' = "notConfigured" /\ runs' = runs
           ELSE IF recordsToUpdate = <<>>
           THEN showDeleteModal' = FALSE /\ appAlert' = "none" /\ runs' = runs
           ELSE IF deleteField # "ok"
           THEN showDeleteModal' = FALSE /\ appAlert' = "noYesDelete" /\ runs' = runs
           ELSE /\ runs' = Append(runs,
                       [run EXCEPT !.calls = << updateBatch(recordsToUpdate, 0) >>])
                /\ appAlert' = "none"
                /\ showDeleteModal' = showDeleteModal
    /\ UNCHANGED <<records, selectedRecords, deleteField, canUpdateRecords, updateTrigger>>
    /\ UNCHANGED cellSide

\* the awaited call resolves: the next turn of the loop, or lines 153-156
BatchSucceeds ==
    \E k \in 1..Len(runs) :
        /\ runs[k].state = "awaiting"
        /\ LET i == runs[k].i + batchSize
               run == [runs[k] EXCEPT !.i = i, !.settled = @ + 1]
           IN  IF i < Len(run.recordsToUpdate)
               THEN /\ runs' = [runs EXCEPT ![k] =
                           [run EXCEPT !.calls = Append(@, updateBatch(run.recordsToUpdate, i))]]
                    /\ UNCHANGED <<selectedRecords, showDeleteModal, updateTrigger>>
               ELSE /\ runs' = [runs EXCEPT ![k] = [run EXCEPT !.state = "done"]]
                    /\ selectedRecords' = {}
                    /\ showDeleteModal' = FALSE
                    /\ updateTrigger' = updateTrigger + 1
        /\ appAlert' = "none"
        /\ UNCHANGED <<records, deleteField, canUpdateRecords>>
        /\ UNCHANGED cellSide

\* the awaited call rejects: the catch, lines 157-161
\* a failure handled like the completion of the loop
BatchFailsAsCompleted ==
    \E k \in 1..Len(runs) :
        /\ runs[k].state = "awaiting"
        /\ runs' = [runs EXCEPT ![k] = [@ EXCEPT !.settled = @ + 1, !.state = "failed"]]
        /\ appAlert' = "failed"
        /\ showDeleteModal' = FALSE
        /\ selectedRecords' = {}
        /\ updateTrigger' = updateTrigger + 1
        /\ UNCHANGED <<records, deleteField, canUpdateRecords>>
        /\ UNCHANGED cellSide

BatchFails ==
    \E k \in 1..Len(runs) :
        /\ runs[k].state = "awaiting"
        /\ runs' = [runs EXCEPT ![k] = [@ EXCEPT !.settled = @ + 1, !.state = "failed"]]
        /\ appAlert' = "failed"
        /\ showDeleteModal' = FALSE
        /\ UNCHANGED <<records, selectedRecords, deleteField, canUpdateRecords, updateTrigger>>
        /\ UNCHANGED cellSide

\* useRecords: a row leaves the table (one row, once)
HostRemoveRecord ==
    /\ Len(records) = MaxRecords
    /\ \E n \in 1..Len(records) :
          records' = SubSeq(records, 1, n - 1) \o SubSeq(records, n + 1, Len(records))
    /\ appAlert' = "none"
    /\ UNCHANGED <<selectedRecords, showDeleteModal, deleteField, canUpdateRecords, runs, updateTrigger>>
    /\ UNCHANGED cellSide

InitDelete ==
    /\ CellAtRest
    /\ records = [n \in 1..MaxRecords |-> n]
    /\ selectedRecords = {}
    /\ showDeleteModal = FALSE
    /\ deleteField \in {"none", "noYesDelete", "ok"}
    /\ canUpdateRecords \in BOOLEAN
    /\ runs = <<>>
    /\ appAlert = "none"
    /\ updateTrigger = 0
    /\ ModalIdle /\ FormatIdle

NextDelete ==
    \/ ToggleRecordSelection \/ SelectAll \/ DeleteClick \/ DeleteCancel \/ DeleteConfirm
    \/ BatchSucceeds \/ BatchFails \/ HostRemoveRecord

SpecDelete == InitDelete /\ [][NextDelete]_vars

----------------------------------------------------------------------------
(* CreateRecordModal: the candidates of its Task and Project from Task      *)
(* fields are fetched through a temporary record                             *)

MaxLookups == 2

ModalTerms == {"", "p", "pq"}

\* an event of the modal: everything else is as it was
ModalEvent(term, linked, fetching, all) ==
    /\ modalSearchTerm' = term
    /\ modalLinkedRecords' = linked
    /\ isFetchingTaskRecords' = fetching
    /\ lookups' = all
    /\ UNCHANGED <<taskRecords, createVars, hostVars, renderVars, cellVars, fieldResolves,
                   pickerVars, appVars, formatVars>>

\* handleLinkedRecordSearch of the modal up to its first await, lines 55-94;
\* typed is the search term the calling handler has set.
\* temp is the temporary record: "none", "present" or "deleted"; attempts counts
\* the deleteRecordAsync calls made for it.
ModalRecordSearch(fieldKey, term, typed) ==
    IF fieldKey = "task" /\ taskRecords /\ term = ""
    THEN ModalEvent(typed, modalLinkedRecords \cup {fieldKey}, isFetchingTaskRecords, lookups)
    ELSE IF fieldKey \in modalLinkedRecords /\ term = ""
    THEN ModalEvent(typed, modalLinkedRecords, isFetchingTaskRecords, lookups)
    ELSE IF fieldKey = "task" /\ isFetchingTaskRecords
    THEN ModalEvent(typed, modalLinkedRecords, isFetchingTaskRecords, lookups)
    ELSE ModalEvent(IF fieldKey = "task" THEN typed ELSE term,
                    modalLinkedRecords,
                    isFetchingTaskRecords \/ fieldKey = "task",
                    Append(lookups, [fieldKey |-> fieldKey, term |-> term, pc |-> "creating",
                                     temp |-> "none", attempts |-> 0]))

\* onFocus of the Task select, lines 656-668
FocusTaskSelect ==
    /\ Len(lookups) < MaxLookups
    /\ "task" \notin modalLinkedRecords /\ ~isFetchingTaskRecords
    /\ ModalRecordSearch("task", "", modalSearchTerm)

\* onChange of the Project from Task input, lines 771-776
TypeProjectSearch ==
    /\ Len(lookups) < MaxLookups
    /\ \E term \in ModalTerms \ {modalSearchTerm} :
          ModalRecordSearch("projectFromTask", term, term)

\* onFocus of the Project from Task input, lines 777-782
FocusProjectInput ==
    /\ Len(lookups) < MaxLookups
    /\ "projectFromTask" \notin modalLinkedRecords
    /\ ModalRecordSearch("projectFromTask", "", modalSearchTerm)

\* the finally block, lines 126-151, once the lookup l has left try / catch
Finally(l) ==
    IF l.temp = "none" THEN [l EXCEPT !.pc = "done"]
    ELSE [l EXCEPT !.pc = "deleting", !.attempts = @ + 1]

\* the catch of a deleteRecordAsync call, lines 134-145: one retry, then nothing
DeleteErrorNoRetry(l) == [l EXCEPT !.pc = "abandoned"]

DeleteError(l) ==
    IF l.pc = "deleting" THEN [l EXCEPT !.pc = "retrying", !.attempts = @ + 1]
    ELSE [l EXCEPT !.pc = "abandoned"]

\* the lookup has returned
Returned(l) == l.pc \in {"done", "retrying", "abandoned"}

\* line 148-150, when the lookup k moves on as l
FetchingAfter(k, l) ==
    IF lookups[k].fieldKey = "task" /\ Returned(l) /\ ~Returned(lookups[k])
    THEN FALSE ELSE isFetchingTaskRecords

\* createRecordAsync settles, lines 94-98: rejected, or resolved with the
\* record's handle found or not
CreateSettles ==
    \E k \in 1..Len(lookups) :
        /\ lookups[k].pc = "creating"
        /\ \E l \in { Finally(lookups[k]),
                      Finally([lookups[k] EXCEPT !.temp = "present"]),
                      [lookups[k] EXCEPT !.temp = "present", !.pc = "searching"] } :
              ModalEvent(modalSearchTerm, modalLinkedRecords, FetchingAfter(k, l), [lookups EXCEPT ![k] = l])

\* fetchForeignRecordsAsync settles, lines 102-125
SearchSettles ==
    \E k \in 1..Len(lookups) :
        /\ lookups[k].pc = "searching"
        /\ \E linked \in {modalLinkedRecords, modalLinkedRecords \cup {lookups[k].fieldKey}} :
              ModalEvent(modalSearchTerm, linked, isFetchingTaskRecords,
                         [lookups EXCEPT ![k] = Finally(lookups[k])])

\* deleteRecordAsync resolves, first call or retry, lines 132-133 and 139-140
DeleteResolves ==
    \E k \in 1..Len(lookups) :
        /\ lookups[k].pc \in {"deleting", "retrying"}
        /\ \E l \in {[lookups[k] EXCEPT !.pc = "done", !.temp = "deleted"]} :
              ModalEvent(modalSearchTerm, modalLinkedRecords, FetchingAfter(k, l), [lookups EXCEPT ![k] = l])

\* deleteRecordAsync rejects
DeleteRejects ==
    \E k \in 1..Len(lookups) :
        /\ lookups[k].pc \in {"deleting", "retrying"}
        /\ \E l \in {DeleteError(lookups[k])} :
              ModalEvent(modalSearchTerm, modalLinkedRecords, FetchingAfter(k, l), [lookups EXCEPT ![k] = l])

InitModal ==
    /\ CellAtRest
    /\ AppIdle /\ FormatIdle /\ CreateIdle
    /\ taskRecords \in BOOLEAN
    /\ modalSearchTerm = ""
    /\ modalLinkedRecords = {}
    /\ isFetchingTaskRecords = FALSE
    /\ lookups = <<>>

NextModal ==
    \/ FocusTaskSelect \/ TypeProjectSearch \/ FocusProjectInput
    \/ CreateSettles \/ SearchSettles \/ DeleteResolves \/ DeleteRejects

SpecModal == InitModal /\ [][NextModal]_vars

----------------------------------------------------------------------------
(* CreateRecordModal: creating the record *)

MaxCreations == 2
MaxCreated == 2

lookupVars == <<taskRecords, modalSearchTerm, modalLinkedRecords, isFetchingTaskRecords, lookups>>

\* an event of the creation: everything else is as it was
CreateEvent(open, values, calls, count, shown) ==
    /\ showCreateModal' = open
    /\ formValues' = values
    /\ creations' = calls
    /\ created' = count
    /\ createAlert' = shown
    /\ UNCHANGED <<timesheetTable, lookupVars, hostVars, renderVars, cellVars, fieldResolves,
                   pickerVars, appVars, formatVars>>

\* lines 287-345: an empty form value is left out of the fields of the new record
fieldsToSet(values) == IF values = "" THEN <<>> ELSE <<values>>

\* the parent's Add button
OpenCreateModal ==
    /\ ~showCreateModal
    /\ CreateEvent(TRUE, formValues, creations, created, createAlert)

\* the Cancel button and the backdrop; the form is reset when the modal closes
CloseCreateModal ==
    /\ showCreateModal
    /\ CreateEvent(FALSE, "", creations, created, createAlert)

\* handleFieldChange
ChangeFormValue ==
    /\ showCreateModal
    /\ \E v \in Texts : v # formValues /\ CreateEvent(TRUE, v, creations, created, createAlert)

\* the Create button: handleCreate up to its await
handleCreate ==
    /\ showCreateModal
    /\ IF ~timesheetTable
       THEN CreateEvent(TRUE, formValues, creations, created, "notConfigured")
       ELSE /\ Len(creations) < MaxCreations
            /\ created + Len(creations) < MaxCreated
            /\ CreateEvent(TRUE, formValues, Append(creations, fieldsToSet(formValues)),
                           created, createAlert)

Without(calls, k) == [j \in 1..(Len(calls) - 1) |-> IF j < k THEN calls[j] ELSE calls[j + 1]]

\* createRecordAsync resolves: onRecordCreated, onClose
CreateRecordResolves ==
    \E k \in DOMAIN creations :
        CreateEvent(FALSE, "", Without(creations, k), created + 1, createAlert)

\* createRecordAsync rejects: the catch block
CreateRecordRejects ==
    \E k \in DOMAIN creations :
        CreateEvent(showCreateModal, formValues, Without(creations, k), created, "failed")

InitCreate ==
    /\ CellAtRest
    /\ AppIdle /\ FormatIdle
    /\ taskRecords = FALSE /\ modalSearchTerm = "" /\ modalLinkedRecords = {}
    /\ isFetchingTaskRecords = FALSE /\ lookups = <<>>
    /\ showCreateModal = FALSE
    /\ timesheetTable \in BOOLEAN
    /\ formValues = ""
    /\ creations = <<>>
    /\ created = 0
    /\ createAlert = "none"

NextCreate ==
    \/ OpenCreateModal \/ CloseCreateModal \/ ChangeFormValue \/ handleCreate
    \/ CreateRecordResolves \/ CreateRecordRejects

SpecCreate == InitCreate /\ [][NextCreate]_vars

----------------------------------------------------------------------------
(* formatDisplayValue as a function of its arguments                         *)

\* what a property of an object can hold
PropertyValues == {<<>>, <<"">>, <<"Alpha">>, <<NullValue>>, <<NumberValue>>}

\* the items of an array value
FormatItems ==
    {Null, Str("a"), Obj(<<"Alpha">>, <<>>, <<"a@x">>), Obj(<<>>, <<"Beta">>, <<>>),
     Obj(<<>>, <<>>, <<"">>), Obj(<<"">>, <<>>, <<NumberValue>>)}

FormatValues ==
    {Null, Undefined, Str(""), Str("a"), Num(5), Bool(TRUE), DateObj(DateA), ObjId("optA")}
    \cup {Obj(n, d, e) : n \in PropertyValues, d \in PropertyValues,
                         e \in PropertyValues \cup {<<"a@x">>}}
    \cup {Arr(<<>>)} \cup {Arr(<<i>>) : i \in FormatItems}
    \cup {Arr(<<i, j>>) : i \in FormatItems, j \in FormatItems}

FormatTypes ==
    {"singleSelect", "singleLineText", "date", "dateTime", "createdBy", "multipleRecordLinks"}

FormatNames == {"Email (from Name)", "Project from Task", "Name"}

InitFormat ==
    /\ CellAtRest
    /\ AppIdle /\ ModalIdle
    /\ formatCall \in [value : FormatValues, fieldType : FormatTypes, fieldName : FormatNames]
    /\ formatted = <<>>

\* the call returns
Format ==
    /\ formatted = <<>>
    /\ formatted' = << formatDisplayValue(formatCall.value, formatCall.fieldType,
                                          formatCall.fieldName) >>
    /\ UNCHANGED <<formatCall, hostVars, renderVars, cellVars, fieldResolves, pickerVars,
                   appVars, modalVars>>

SpecFormat == InitFormat /\ [][Format]_vars

----------------------------------------------------------------------------
(* Properties of the CalendarPicker *)

\* the number of the day from 2024-01-01, by the lengths of the months of 2024
DayOfYear2024(m, d) ==
    (IF m = 1 THEN 0 ELSE IF m = 2 THEN 31 ELSE IF m = 3 THEN 60 ELSE 91) + d - 1

\* C11: after a click on a day the picker has called onDateSelect, once, with the
\* local midnight of that day of the displayed month, when the day's key is in
\* availableDates; otherwise it has called nothing; it has not called onClose.
C11_DayClickCallsSelectOnly ==
    pickerEvent.kind = "day" =>
        IF DayKey(DayOfYear2024(pickerEvent.month, pickerEvent.day)) \in availableDates
        THEN /\ Len(pickerCalls) = 1
             /\ pickerCalls[1].fn = "onDateSelect"
             /\ pickerCalls[1].date[1] + tz = 24 * DayOfYear2024(pickerEvent.month, pickerEvent.day)
        ELSE pickerCalls = <<>>

\* the user went to another month and clicked an available day there
C11_Witness ==
    /\ pickerEvent.kind = "day" /\ pickerCalls # <<>>
    /\ cellValue # <<>> /\ Civil(cellValue[1]).month # pickerEvent.month

----------------------------------------------------------------------------
(* Properties of the commit paths *)

\* C12: every update mutation a user's commit has issued is keyed by a field that
\* resolved in the table when it was issued: with an unresolved field no mutation
\* is made.
C12_NoMutationForUnresolvedField ==
    \A i \in 1..Len(pending) :
        pending[i].path # "nameAuto" => pending[i].target = "current"

\* C13: right after an update mutation of the cell has failed (the failure alert
\* is up, nothing else is in flight) the cell displays the host's value: the Task
\* and linked-record selection, the selected options, the text buffer.
C13_FailureShowsHostValue ==
    (alert = "failed" /\ pending = <<>> /\ isEditing) =>
        IF Branch(CellState) \in {"task", "linked"}
        THEN selectedId(CellState, cellValue) = (IF cellValue = <<>> THEN "" ELSE cellValue[1])
        ELSE IF Branch(CellState) = "multiSelect"
        THEN (IF selectedMultipleSelectIds # {} THEN selectedMultipleSelectIds ELSE cellValue)
                 = cellValue
        ELSE IF Branch(CellState) = "input" /\ isTextField
        THEN editValue = formatDisplayValue(CellValueOf(cellValue), field.type, field.name)
        ELSE TRUE

\* C14: no host call of the cell rejects without a handler at its call site.
C14_NoUnhandledRejection == ~unhandledRejection

\* the record ids one updateRecordsAsync call carries
IdsOf(call) == {call[n].id : n \in 1..Len(call)}

\* C15: every invocation of handleDeleteConfirm works on exactly the selected rows
\* that are in the list when it is invoked; it issues calls of at most batchSize
\* records each, never a second one before the first has settled, on pairwise
\* disjoint records, all of them among those rows, each setting Delete to
\* "Yes Delete"; when the last call succeeds the calls cover exactly those rows,
\* and in that step the selection is emptied and the modal closed.
C15_DeleteInBatches ==
    /\ [](\A k \in 1..Len(runs) :
            LET run == runs[k]
                wanted == {run.recordsToUpdate[n] : n \in 1..Len(run.recordsToUpdate)}
            IN  /\ \A c \in 1..Len(run.calls) :
                      /\ Len(run.calls[c]) \in 1..batchSize
                      /\ \A n \in 1..Len(run.calls[c]) : run.calls[c][n].fields = "Yes Delete"
                      /\ Cardinality(IdsOf(run.calls[c])) = Len(run.calls[c])
                      /\ IdsOf(run.calls[c]) \subseteq wanted
                      /\ \A d \in 1..Len(run.calls) :
                            c # d => IdsOf(run.calls[c]) \cap IdsOf(run.calls[d]) = {}
                /\ Len(run.calls) - run.settled \in {0, 1}
                /\ run.state = "done" =>
                      UNION {IdsOf(run.calls[c]) : c \in 1..Len(run.calls)} = wanted)
    /\ [][/\ Len(runs') > Len(runs) =>
                {runs'[Len(runs')].recordsToUpdate[n] :
                    n \in 1..Len(runs'[Len(runs')].recordsToUpdate)}
                = selectedRecords \cap {records[n] : n \in 1..Len(records)}
          /\ \A k \in 1..Len(runs) :
                runs[k].state = "awaiting" /\ runs'[k].state = "done"
                    => selectedRecords' = {} /\ ~showDeleteModal']_vars

\* an invocation finished after a full batch and a partial one
C15_Witness ==
    \E k \in 1..Len(runs) :
        /\ runs[k].state = "done"
        /\ Len(runs[k].calls) = 2
        /\ Len(runs[k].calls[2]) = 1
        /\ selectedRecords = {}
        /\ ~showDeleteModal

\* C16: no two lookups of the modal for the same field key hold a temporary
\* record each while neither has returned.
C16_OneLookupPerFieldKey ==
    \A i, j \in 1..Len(lookups) :
        i # j /\ lookups[i].fieldKey = lookups[j].fieldKey
            => ~(/\ ~Returned(lookups[i]) /\ lookups[i].temp = "present"
                 /\ ~Returned(lookups[j]) /\ lookups[j].temp = "present")

\* C17: a lookup that created a temporary record and has returned has called
\* deleteRecordAsync for it, whatever happened to the search; it calls it at most
\* twice, the second time only after the first failed; a record left in the table
\* by a lookup that gave up has seen exactly two calls.
C17_TempRecordDeletion ==
    /\ [](\A k \in 1..Len(lookups) :
            LET l == lookups[k]
            IN  /\ l.temp = "none" => l.attempts = 0
                /\ l.temp # "none" /\ Returned(l) => l.attempts \in {1, 2}
                /\ l.attempts <= 2
                /\ l.pc = "retrying" => l.attempts = 2 /\ l.temp = "present"
                /\ l.pc = "abandoned" => l.attempts = 2 /\ l.temp = "present"
                /\ l.temp = "deleted" => l.pc = "done")
    /\ [][\A k \in 1..Len(lookups) :
            lookups'[k].attempts = 2 /\ lookups[k].attempts = 1
                => lookups[k].pc = "deleting" /\ lookups'[k].temp = "present"]_vars

\* a search failed or found no handle, and both deletions of its record failed
C17_Witness ==
    \E k \in 1..Len(lookups) :
        /\ lookups[k].pc = "abandoned"
        /\ lookups[k].fieldKey \notin modalLinkedRecords

\* C18: the update handleSave issues for a text field carries null when the
\* edit buffer is the empty string and the buffer's string otherwise; no update
\* of a text field from handleSave carries the empty string.
C18_EmptyTextSavedAsNull ==
    /\ [](isTextField =>
            \A i \in 1..Len(pending) :
                pending[i].path = "handleSave" => pending[i].value # <<"">>)
    /\ [][/\ isTextField
          /\ Len(pending') = Len(pending) + 1
          /\ pending'[Len(pending')].path = "handleSave"
          => pending'[Len(pending')].value =
                IF editValue = "" THEN <<>> ELSE <<editValue>>]_vars

\* the user emptied a text cell that held a string, and the save is on its way
C18_Witness ==
    /\ isTextField /\ cellValue # ""
    /\ \E i \in 1..Len(pending) :
          pending[i].path = "handleSave" /\ pending[i].value = <<>>

\* C19: an update issued from the Task select or from the searchable dropdown of a
\* linked-record cell carries exactly one record id, an id of the candidates the
\* cell has fetched; clearing the Task select issues an update with no id.
C19_SingleChoiceLinkUpdate ==
    /\ [](\A i \in 1..Len(pending) :
            /\ pending[i].path \in {"task", "linked"} => Len(pending[i].value) = 1
            /\ pending[i].path = "taskClear" => pending[i].value = <<>>)
    /\ [][/\ Len(pending') = Len(pending) + 1
          /\ pending'[Len(pending')].path \in {"task", "linked"}
          => pending'[Len(pending')].value[1] \in linkedRecords]_vars

\* with several candidates fetched, the Task select has sent one of them
C19_Witness ==
    /\ Cardinality(linkedRecords) > 1
    /\ \E i \in 1..Len(pending) :
          pending[i].path = "task" /\ pending[i].value[1] \in linkedRecords

\* C20: the Date the calendar hands over for a picked day, a local midnight, is
\* turned into the YYYY-MM-DD string of its local calendar day both by
\* formatDisplayValue for a date-only field and by the creation modal's payload.
C20_DateStringIsLocalDay ==
    \A n \in 1..Len(pickerCalls) :
        pickerCalls[n].fn = "onDateSelect" =>
            LET date == pickerCalls[n].date[1]
            IN  /\ formatDisplayValue(DateObj(date), "date", "Date") = formatDateToString(date)
                /\ datePayload(DateObj(date)) = <<formatDateToString(date)>>

\* C21: for a single-select field the value {id: optA}, which carries no name, is
\* displayed as "Alpha", the name of the choice optA.
C21_ChoiceShownByName ==
    /\ formatted # <<>>
    /\ formatCall.fieldType = "singleSelect"
    /\ formatCall.fieldName = "Name"
    /\ formatCall.value = ObjId("optA")
    => formatted[1] = DisplayName("optA")

C23_AlwaysAString ==
    formatted # <<>> =>
        /\ formatted[1] \notin {NullValue, NumberValue}
        /\ formatCall.value.t \in {"null", "undefined"} => formatted[1] = ""

\* C24: getAvailableDates gives the same set for every order of the Month records,
\* and the same set again when a record of the list is in the list twice.
C24_OrderAndRepeatsIrrelevant ==
    LET n == Len(MonthList)
        dates(list) == getAvailableDates(<<list>>, monthStatusField, monthStartDateField,
                                         monthEndDateField)
    IN  monthRecords # <<>> =>
          /\ \A p \in {q \in [1..n -> 1..n] : \A i, j \in 1..n : i # j => q[i] # q[j]} :
                dates([i \in 1..n |-> MonthList[p[i]]]) = availableDates
          /\ \A i \in 1..n :
                /\ dates(Append(MonthList, MonthList[i])) = availableDates
                /\ dates(<<MonthList[i]>> \o MonthList) = availableDates

\* two different Month records, the first one Open with three days
C24_Witness ==
    /\ ConfigPresent /\ Len(MonthList) = 2
    /\ MonthList[1] # MonthList[2]
    /\ Covers(1, "Open", LocalDay(DateA))
    /\ Cardinality(availableDates) = 3

\* C25: a candidate fetch is issued only when the search query changes: a step
\* that changes the search term adds at most one fetchForeignRecordsAsync call,
\* and a host refresh of the cell value with the term unchanged adds none.
C25_FetchOnlyOnTermChange ==
    [][/\ (searchTerm' # searchTerm => Cardinality(fetches' \ fetches) <= 1)
       /\ (searchTerm' = searchTerm /\ cellValue' # cellValue => fetches' \subseteq fetches)]_vars

\* C26: in a pinned single-line or multiline text cell, typing a text that
\* differs from the host value leaves that text in the edit buffer once the
\* render and its effects have run, the host value being unchanged.
C26_TypedTextKept ==
    (Branch(CellState) = "input" /\ isTextField /\ AlwaysInput(isClosed)) =>
        \A v \in Texts :
            (v # editValue /\ v # formatDisplayValue(CellValueOf(cellValue), field.type, field.name))
                => AfterEvent([CellState EXCEPT !.editValue = v],
                              cellValue, isClosed, canEdit).editValue = v

\* C27: while a createRecordAsync call of the creation modal is in flight, a
\* click on Create issues no second one: at most one creation is in flight.
C27_OneCreationInFlight == Len(creations) <= 1

\* C28: once every candidate search of a linked-record cell has resolved, the
\* candidate list is the result for the search term entered last, in whatever
\* order the responses arrived.
C28_ListIsForLastTerm ==
    (Branch(CellState) = "linked" /\ fetches = {}) => linkedRecords = Found(searchTerm)

\* C29: when an updateRecordsAsync batch of the bulk delete fails, the run
\* issues no later batch and the batches already issued stay as they are, the
\* selection is unchanged, the modal is closed, the alert is shown and the
\* refresh counter is not incremented.
C29_FailedBatchStopsRun ==
    [][\A k \in 1..Len(runs) :
          /\ (runs[k].state = "awaiting" /\ runs'[k].state = "failed") =>
                /\ runs'[k].calls = runs[k].calls
                /\ selectedRecords' = selectedRecords
                /\ showDeleteModal' = FALSE
                /\ appAlert' = "failed"
                /\ updateTrigger' = updateTrigger
          /\ runs[k].state = "failed" => runs'[k] = runs[k]]_vars

\* the second batch of a run has failed: the first one was applied and the
\* selection is still there
C29_Witness ==
    \E k \in 1..Len(runs) :
        /\ runs[k].state = "failed"
        /\ runs[k].settled = 2 /\ Len(runs[k].calls) = 2
        /\ selectedRecords # {}
        /\ ~showDeleteModal
        /\ appAlert = "failed"

\* C30: while an auto-population update of the Name cell is in flight and the
\* host Name is still empty, a re-render issues no other one: at most one
\* auto-population update is outstanding.
C30_OneAutoPopulationInFlight ==
    Cardinality({ i \in 1..Len(pending) : pending[i].path = "nameAuto" }) <= 1

====
